---- MODULE Spec2Model ----
(***************************************************************************)
(* Verification model of two files of Pyomo:                               *)
(*   pyomo/kernel/__init__.py   - the import-time registration of the      *)
(*                                kernel component types' _ctype           *)
(*   pyomo/contrib/appsi/solvers/tests/test_persistent_solvers.py          *)
(*                              - the tests driving a PersistentSolver     *)
(* The persistent solver itself (pyomo.contrib.appsi.base and the solver   *)
(* adapters) is modelled from its documented interface: an exact LP solve  *)
(* over two variables with rational arithmetic.                            *)
(***************************************************************************)
EXTENDS Integers, Sequences, FiniteSets, TLC

\* ------------------------------------------------------------------------
\* Optional values and exact rationals.  None is <<>>, an integer that may
\* be absent is <<v>>, a rational is <<n, d>> with d > 0 and gcd(n, d) = 1.
\* ------------------------------------------------------------------------
None == <<>>

Some(v) == <<v>>

Abs(n) == IF n < 0 THEN -n ELSE n

RECURSIVE GCD(_, _)
GCD(a, b) == IF b = 0 THEN a ELSE GCD(b, a % b)

Rat(n, d) ==
    LET s == IF d < 0 THEN -1 ELSE 1
        g == GCD(Abs(n), Abs(d))
    IN  <<(s * n) \div g, (s * d) \div g>>

RatInt(n) == <<n, 1>>

RatLeq(a, b) == a[1] * b[2] <= b[1] * a[2]

\* ------------------------------------------------------------------------
\* The linear program the solver holds.  A row is
\*     lo <= cx*x + cy*y + k <= hi
\* with lo, hi optional.  rows is a function from row names to rows; the
\* objective is [has, ox, oy, sense].
\* ------------------------------------------------------------------------
Row(lo, cx, cy, k, hi) == [lo |-> lo, hi |-> hi, cx |-> cx, cy |-> cy, k |-> k]

Cross(ax, ay, bx, by) == ax * by - ay * bx

\* the boundary lines gx*x + gy*y = r of a set of rows; an equality row has
\* one line, a range row two
Lines(rows) ==
    UNION { LET w == rows[n] IN
            IF w.lo # None /\ w.lo = w.hi
            THEN {[row |-> n, side |-> "eq", gx |-> w.cx, gy |-> w.cy, r |-> w.lo[1] - w.k]}
            ELSE (IF w.lo # None
                  THEN {[row |-> n, side |-> "lo", gx |-> w.cx, gy |-> w.cy, r |-> w.lo[1] - w.k]}
                  ELSE {})
                 \cup
                 (IF w.hi # None
                  THEN {[row |-> n, side |-> "hi", gx |-> w.cx, gy |-> w.cy, r |-> w.hi[1] - w.k]}
                  ELSE {})
          : n \in DOMAIN rows }

Intersect(l1, l2) ==
    LET det == Cross(l1.gx, l1.gy, l2.gx, l2.gy)
    IN  [x |-> Rat(l1.r * l2.gy - l2.r * l1.gy, det),
         y |-> Rat(l1.gx * l2.r - l2.gx * l1.r, det)]

\* one point of a line, used when the feasible set has no vertex
PointOn(l) ==
    IF l.gy # 0 THEN [x |-> RatInt(0), y |-> Rat(l.r, l.gy)]
    ELSE [x |-> Rat(l.r, l.gx), y |-> RatInt(0)]

\* body of a row at a point, times the (positive) product of denominators
BodyTimesDen(w, p) == w.cx * p.x[1] * p.y[2] + w.cy * p.y[1] * p.x[2] + w.k * p.x[2] * p.y[2]

Den(p) == p.x[2] * p.y[2]

RowHolds(w, p) ==
    /\ w.lo # None => w.lo[1] * Den(p) <= BodyTimesDen(w, p)
    /\ w.hi # None => BodyTimesDen(w, p) <= w.hi[1] * Den(p)

Feasible(rows, p) == \A n \in DOMAIN rows : RowHolds(rows[n], p)

OnLine(l, p) == l.gx * p.x[1] * p.y[2] + l.gy * p.y[1] * p.x[2] = l.r * Den(p)

Candidates(rows) ==
    LET L == { l \in Lines(rows) : l.gx # 0 \/ l.gy # 0 }
    IN  { Intersect(l1, l2) : <<l1, l2>> \in
              { q \in L \X L : Cross(q[1].gx, q[1].gy, q[2].gx, q[2].gy) # 0 } }
        \cup { PointOn(l) : l \in L }
        \cup { [x |-> RatInt(0), y |-> RatInt(0)] }

FeasiblePoints(rows) == { p \in Candidates(rows) : Feasible(rows, p) }

\* objective value at a point
ObjValue(obj, p) == Rat(obj.ox * p.x[1] * p.y[2] + obj.oy * p.y[1] * p.x[2], Den(p))

\* objective seen as a minimisation
MinDir(obj) == IF obj.sense = "minimize" THEN [ox |-> obj.ox, oy |-> obj.oy]
               ELSE [ox |-> -obj.ox, oy |-> -obj.oy]

InCone(rows, dx, dy) ==
    \A n \in DOMAIN rows :
        LET w == rows[n] IN
        /\ w.lo # None => w.cx * dx + w.cy * dy >= 0
        /\ w.hi # None => w.cx * dx + w.cy * dy <= 0

\* the feasible set has a direction of recession along which the objective
\* improves without bound
Unbounded(rows, obj) ==
    LET c == MinDir(obj)
        D == UNION { { <<l.gy, -l.gx>>, <<-l.gy, l.gx>>, <<l.gx, l.gy>>, <<-l.gx, -l.gy>> }
                     : l \in Lines(rows) }
             \cup { <<-c.ox, -c.oy>> }
    IN  \E d \in D : InCone(rows, d[1], d[2]) /\ c.ox * d[1] + c.oy * d[2] < 0

OptimalPoints(rows, obj) ==
    LET F == FeasiblePoints(rows)
        c == [ox |-> MinDir(obj).ox, oy |-> MinDir(obj).oy]
    IN  { p \in F : \A q \in F : RatLeq(ObjValue(c, p), ObjValue(c, q)) }

\* Lagrange multipliers: obj gradient = sum of dual * row gradient over the
\* rows active at p, at most two of them non-zero (a basis), with the sign
\* the sense of the objective requires.
SignOk(l, lam, obj) ==
    \/ l.side = "eq"
    \/ lam[1] = 0
    \/ (l.side = "lo") = ((obj.sense = "minimize") = (lam[1] > 0))

DualsOf(rows, assign) ==
    [n \in DOMAIN rows |->
        IF \E a \in assign : a[1] = n THEN (CHOOSE a \in assign : a[1] = n)[2] ELSE RatInt(0)]

DualSolutions(rows, obj, p) ==
    LET A == { l \in Lines(rows) : (l.gx # 0 \/ l.gy # 0) /\ OnLine(l, p) }
        pairs == { q \in A \X A : Cross(q[1].gx, q[1].gy, q[2].gx, q[2].gy) # 0 }
        Lam1(q) == Rat(Cross(obj.ox, obj.oy, q[2].gx, q[2].gy),
                       Cross(q[1].gx, q[1].gy, q[2].gx, q[2].gy))
        Lam2(q) == Rat(Cross(q[1].gx, q[1].gy, obj.ox, obj.oy),
                       Cross(q[1].gx, q[1].gy, q[2].gx, q[2].gy))
        singles == { l \in A : Cross(obj.ox, obj.oy, l.gx, l.gy) = 0 }
        LamS(l) == Rat(obj.ox * l.gx + obj.oy * l.gy, l.gx * l.gx + l.gy * l.gy)
    IN  IF obj.ox = 0 /\ obj.oy = 0
        THEN { DualsOf(rows, {}) }
        ELSE { DualsOf(rows, { <<q[1].row, Lam1(q)>>, <<q[2].row, Lam2(q)>> }) :
                 q \in { q \in pairs : SignOk(q[1], Lam1(q), obj) /\ SignOk(q[2], Lam2(q), obj) } }
             \cup
             { DualsOf(rows, { <<l.row, LamS(l)>> }) :
                 l \in { l \in singles : SignOk(l, LamS(l), obj) } }

\* every outcome an exact LP solver may report for (rows, obj)
SolveLP(rows, obj) ==
    IF FeasiblePoints(rows) = {} THEN { [status |-> "infeasible"] }
    ELSE IF Unbounded(rows, obj) THEN { [status |-> "unbounded"] }
    ELSE UNION { { [status |-> "optimal", x |-> p.x, y |-> p.y,
                    value |-> ObjValue(obj, p), duals |-> d]
                   : d \in DualSolutions(rows, obj, p) }
                 : p \in OptimalPoints(rows, obj) }

\* ------------------------------------------------------------------------
\* Bounds of the model
\* ------------------------------------------------------------------------
MaxSlope == 2

MaxOffset == 3

\* ------------------------------------------------------------------------
\* The tests: which solvers, which model each test builds
\* ------------------------------------------------------------------------
all_solvers == {"gurobi", "ipopt", "cplex", "cbc"}

KernelImport == "import pyomo.kernel"

TestSolvers == {"test_param_changes", "test_equality", "test_add_remove_cons",
                "test_results_infeasible", "test_duals", "test_fixed_vars",
                "test_mutable_param_with_range", "test_add_and_remove_vars",
                "test_reduced_costs", "test_reduced_costs2", "test_range_constraint",
                "test_no_objective"}

TestLegacySolverInterface == {"test_param_updates", "test_load_solutions"}

Tests == TestSolvers \cup TestLegacySolverInterface

VarNames == {"x", "y"}

ParamNames == {"a1", "a2", "b1", "b2", "c1", "c2"}

\* tests whose loop assigns (a1, a2, b1, b2) before each solve
ParamTests == {"test_param_changes", "test_equality", "test_param_updates"}

\* every test with that loop: test_no_objective has it too, without objective
ParamLoopTests == ParamTests \cup {"test_no_objective"}

\* the tuples (a1, a2, b1, b2) of params_to_test: a1 = 1 > 0 > a2, b1 > b2 = 1
params_to_test == { <<1, -a2, b1, 1>> : a2 \in 1..MaxSlope, b1 \in 2..MaxOffset }

\* the tuples (a1, a2, b1, b2, c1, c2, sense) of test_mutable_param_with_range:
\* a1 in (0, 10), a2 in (-10, 0), b1, b2 in (-5, 2.5), c1, c2 in (2.5, 10)
range_params_to_test == { <<a1, -a2, -1, 0, 3, 4, sense>> :
                             a1 \in 1..MaxSlope, a2 \in {1, 2},
                             sense \in {"minimize", "maximize"} }

NoParams == [p \in ParamNames |-> None]

InitParams(t) == IF t = "test_mutable_param_with_range"
                 THEN [p \in ParamNames |-> Some(0)]
                 ELSE NoParams

\* the parameters a test's constraints use
UsedParams(t) == IF t \in ParamLoopTests THEN {"a1", "a2", "b1", "b2"}
                 ELSE IF t = "test_mutable_param_with_range" THEN ParamNames
                 ELSE {}

\* variables and constraints on the model when the test has built it
InitVars(t) == IF t = "test_add_and_remove_vars" THEN {"y"}
               ELSE IF t \in {"test_load_solutions", "test_reduced_costs2",
                              "test_range_constraint"} THEN {"x"}
               ELSE VarNames

InitCons(t) == IF t \in {"test_add_and_remove_vars", "test_reduced_costs",
                         "test_reduced_costs2"} THEN {}
               ELSE IF t \in {"test_load_solutions", "test_range_constraint"} THEN {"c"}
               ELSE IF t = "test_mutable_param_with_range" THEN {"con1", "con2"}
               ELSE {"c1", "c2"}

\* every constraint a test ever puts on its model
AllCons(t) == IF t = "test_add_remove_cons" THEN {"c1", "c2", "c3"}
              ELSE IF t = "test_add_and_remove_vars" THEN {"c1", "c2"}
              ELSE InitCons(t)

\* tests that declare their variables with pe.Var(bounds=(lb, ub))
BoundedVarTests == {"test_reduced_costs", "test_reduced_costs2"}

\* variable bounds: y >= -1 in test_add_and_remove_vars, x in [-1, 1] and
\* y in [-2, 2] in the reduced cost tests
VarLb(t, v) == IF t = "test_add_and_remove_vars" /\ v = "y" THEN Some(-1)
               ELSE IF t \in BoundedVarTests THEN (IF v = "x" THEN Some(-1) ELSE Some(-2))
               ELSE None

VarUb(t, v) == IF t \in BoundedVarTests THEN (IF v = "x" THEN Some(1) ELSE Some(2))
               ELSE None

\* mutation: test_no_objective declares an objective as well
HasObjective_always(t) == TRUE

\* whether the model of the test has an Objective: all but test_no_objective
HasObjective(t) == t # "test_no_objective"

\* mutation: test_reduced_costs minimizes 4*m.x + 3*m.y
ObjExpr_coefficients_swapped(t) ==
    IF t \in {"test_load_solutions", "test_reduced_costs2", "test_range_constraint"}
    THEN [ox |-> 1, oy |-> 0]
    ELSE IF t = "test_reduced_costs" THEN [ox |-> 4, oy |-> 3]
    ELSE IF t = "test_no_objective" THEN [ox |-> 0, oy |-> 0]
    ELSE [ox |-> 0, oy |-> 1]

\* objective expression: m.y in most tests, m.x in test_load_solutions,
\* test_reduced_costs2 and test_range_constraint, 3*m.x + 4*m.y in
\* test_reduced_costs, nothing (written 0) in test_no_objective
ObjExpr(t) ==
    IF t \in {"test_load_solutions", "test_reduced_costs2", "test_range_constraint"}
    THEN [ox |-> 1, oy |-> 0]
    ELSE IF t = "test_reduced_costs" THEN [ox |-> 3, oy |-> 4]
    ELSE IF t = "test_no_objective" THEN [ox |-> 0, oy |-> 0]
    ELSE [ox |-> 0, oy |-> 1]

\* the constraints of each test as rows lo <= cx*x + cy*y + k <= hi; a
\* relational expression lhs >= rhs has body rhs - lhs and upper limit 0
\* mutation: c2 written with b1 where the test has b2
Rows_test_param_changes_b1_twice(n, p) ==
    IF n = "c1" THEN Row(Some(0), -p.a1[1], 1, -p.b1[1], None)
    ELSE Row(None, p.a2[1], -1, p.b1[1], Some(0))

Rows_test_param_changes(n, p) ==
    IF n = "c1" THEN Row(Some(0), -p.a1[1], 1, -p.b1[1], None)
    ELSE Row(None, p.a2[1], -1, p.b2[1], Some(0))

Rows_test_equality(n, p) ==
    IF n = "c1" THEN Row(Some(0), -p.a1[1], 1, -p.b1[1], Some(0))
    ELSE Row(Some(0), -p.a2[1], 1, -p.b2[1], Some(0))

Rows_test_no_objective(n, p) ==
    IF n = "c1" THEN Row(Some(0), -p.a1[1], 1, -p.b1[1], Some(0))
    ELSE Row(Some(0), -p.a2[1], 1, -p.b2[1], Some(0))

\* mutation: a3 = -1 where the test has a3 = 1
Rows_test_add_remove_cons_a3_negated(n) ==
    LET a1 == -1  a2 == 1  b1 == 1  b2 == 2  a3 == -1  b3 == 3
    IN  IF n = "c1" THEN Row(None, a1, -1, b1, Some(0))
        ELSE IF n = "c2" THEN Row(None, a2, -1, b2, Some(0))
        ELSE Row(None, a3, -1, b3, Some(0))

Rows_test_add_remove_cons(n) ==
    LET a1 == -1  a2 == 1  b1 == 1  b2 == 2  a3 == 1  b3 == 3
    IN  IF n = "c1" THEN Row(None, a1, -1, b1, Some(0))
        ELSE IF n = "c2" THEN Row(None, a2, -1, b2, Some(0))
        ELSE Row(None, a3, -1, b3, Some(0))

\* mutation: c2 is y <= x + 1 where the test has y <= x - 1
Rows_test_results_infeasible_plus_one(n) ==
    IF n = "c1" THEN Row(None, 1, -1, 0, Some(0))
    ELSE Row(None, -1, 1, -1, Some(0))

Rows_test_results_infeasible(n) ==
    IF n = "c1" THEN Row(None, 1, -1, 0, Some(0))
    ELSE Row(None, -1, 1, 1, Some(0))

Rows_test_duals(n) ==
    IF n = "c1" THEN Row(Some(0), -1, 1, 0, None)
    ELSE Row(Some(0), 1, 1, -2, None)

Rows_test_fixed_vars(n) ==
    LET a1 == 1  a2 == -1  b1 == 1  b2 == 2
    IN  IF n = "c1" THEN Row(None, a1, -1, b1, Some(0))
        ELSE Row(None, a2, -1, b2, Some(0))

Rows_test_mutable_param_with_range(n, p) ==
    IF n = "con1" THEN Row(p.b1, -p.a1[1], 1, 0, p.c1)
    ELSE Row(p.b2, -p.a2[1], 1, 0, p.c2)

\* mutation: b1 and b2 exchanged
Rows_test_add_and_remove_vars_b_swapped(n) ==
    LET a1 == 1  a2 == -1  b1 == 1  b2 == 2
    IN  IF n = "c1" THEN Row(Some(0), -a1, 1, -b1, None)
        ELSE Row(None, a2, -1, b2, Some(0))

Rows_test_add_and_remove_vars(n) ==
    LET a1 == 1  a2 == -1  b1 == 2  b2 == 1
    IN  IF n = "c1" THEN Row(Some(0), -a1, 1, -b1, None)
        ELSE Row(None, a2, -1, b2, Some(0))

\* mutation: the range is (-2, m.x, 1) where the test has (-1, m.x, 1)
Rows_test_load_solutions_wider(n) == Row(Some(-2), 1, 0, 0, Some(1))

Rows_test_load_solutions(n) == Row(Some(-1), 1, 0, 0, Some(1))

\* mutation: the range is (-1, m.x, 2) where the test has (-1, m.x, 1)
Rows_test_range_constraint_wider(n) == Row(Some(-1), 1, 0, 0, Some(2))

Rows_test_range_constraint(n) == Row(Some(-1), 1, 0, 0, Some(1))

\* the constraint n of test t as a row, with parameter values p
ConRow(t, n, p) ==
    CASE t \in {"test_param_changes", "test_param_updates"} -> Rows_test_param_changes(n, p)
      [] t = "test_equality" -> Rows_test_equality(n, p)
      [] t = "test_add_remove_cons" -> Rows_test_add_remove_cons(n)
      [] t = "test_results_infeasible" -> Rows_test_results_infeasible(n)
      [] t = "test_duals" -> Rows_test_duals(n)
      [] t = "test_fixed_vars" -> Rows_test_fixed_vars(n)
      [] t = "test_mutable_param_with_range" -> Rows_test_mutable_param_with_range(n, p)
      [] t = "test_add_and_remove_vars" -> Rows_test_add_and_remove_vars(n)
      [] t = "test_load_solutions" -> Rows_test_load_solutions(n)
      [] t = "test_range_constraint" -> Rows_test_range_constraint(n)
      [] t = "test_no_objective" -> Rows_test_no_objective(n, p)

\* the variables a constraint mentions
ConVars(t, n) == IF n = "c" THEN {"x"} ELSE VarNames

\* ------------------------------------------------------------------------
\* State
\* ------------------------------------------------------------------------
VARIABLES
    test,            \* the test method being run, or KernelImport
    name,            \* the solver the test is parameterized with
    avail,           \* "unchecked", "yes" or "skipped" (unittest.SkipTest)
    built,           \* the test has built its model m
    m_vars,          \* Var components on the model m
    m_cons,          \* Constraint components on the model m
    m_params,        \* values of the mutable Params
    m_fixed,         \* Var.fixed
    m_value,         \* Var.value, None or a rational
    m_sense,         \* m.obj.sense
    m_dual,          \* the imported Suffix m.dual
    load_solution,   \* opt.config.load_solution
    update_config,   \* opt.update_config
    s_set,           \* the solver has been given the model (set_instance)
    s_vars,          \* variables the solver holds
    s_cons,          \* constraints the solver holds
    s_params,        \* parameter values the solver holds
    s_fixed,         \* per variable, None or the value it is fixed at
    s_sense,         \* sense of the objective the solver holds
    sol,             \* the solution of the last solve, kept in the solver
    res,             \* the results object the test holds
    outcome,         \* "ok" or "raised": how the last call ended
    last,            \* the last call the test made
    ret,             \* what the last get_duals returned
    kpc,             \* pyomo/kernel/__init__.py: next statement to execute
    namespace,       \* component classes bound in the module namespace
    ctype            \* _ctype of every kernel type

modelvars == <<m_vars, m_cons, m_params, m_fixed, m_value, m_sense, m_dual>>

configvars == <<load_solution, update_config>>

solvervars == <<s_set, s_vars, s_cons, s_params, s_fixed, s_sense, sol>>

kernelvars == <<kpc, namespace, ctype>>

vars == <<test, name, avail, built, modelvars, configvars, solvervars, res, outcome, last, ret,
          kernelvars>>

EmptyMap == [n \in {} |-> RatInt(0)]

NoSol == [has |-> FALSE, vars |-> {}, x |-> None, y |-> None, duals |-> EmptyMap,
          rc |-> EmptyMap]

NoRes == [tc |-> "none", bfo |-> None, bob |-> None, soln |-> NoSol]

UpdateFlags == {"update_params", "update_vars", "update_constraints",
                "update_named_expressions", "check_for_new_or_removed_params",
                "check_for_new_or_removed_constraints", "check_for_new_or_removed_vars"}

DefaultUpdateConfig == [f \in UpdateFlags |-> TRUE]

\* ------------------------------------------------------------------------
\* The persistent solver
\* ------------------------------------------------------------------------

\* the rows of the solver's problem: its constraints and, per variable, its
\* bounds, the value it is fixed at, or 0 for a variable the solver lacks
SolverRows(t, cons, params, vs, fixed) ==
    LET ex(v) == IF v = "x" THEN 1 ELSE 0
        ey(v) == IF v = "y" THEN 1 ELSE 0
        VarRow(v) ==
            IF v \notin vs THEN Row(Some(0), ex(v), ey(v), 0, Some(0))
            ELSE IF fixed[v] # None
                 THEN Row(Some(fixed[v][1]), fixed[v][2] * ex(v), fixed[v][2] * ey(v), 0,
                          Some(fixed[v][1]))
                 ELSE Row(VarLb(t, v), ex(v), ey(v), 0, VarUb(t, v))
    IN  [n \in cons \cup VarNames |-> IF n \in cons THEN ConRow(t, n, params) ELSE VarRow(n)]

\* what the model says about fixed variables
ModelFixed == [v \in VarNames |-> IF v \in m_vars /\ m_fixed[v] THEN m_value[v] ELSE None]

\* mutation: update() adds what is new on the model and removes nothing
Synced_keeps_removed ==
    IF ~s_set
    THEN [vars |-> m_vars, cons |-> m_cons, params |-> m_params, fixed |-> ModelFixed,
          sense |-> m_sense]
    ELSE [vars |-> m_vars \cup s_vars, cons |-> m_cons \cup s_cons, params |-> m_params,
          fixed |-> ModelFixed, sense |-> m_sense]

\* the solver's copy of the model after set_instance (first solve) or
\* update() (later solves, as far as update_config allows)
Synced ==
    IF ~s_set
    THEN [vars |-> m_vars, cons |-> m_cons, params |-> m_params, fixed |-> ModelFixed,
          sense |-> m_sense]
    ELSE LET vs == IF update_config["check_for_new_or_removed_vars"] THEN m_vars ELSE s_vars
         IN  [vars |-> vs,
              cons |-> IF update_config["check_for_new_or_removed_constraints"]
                       THEN m_cons ELSE s_cons,
              params |-> IF update_config["update_params"] THEN m_params ELSE s_params,
              fixed |-> [v \in VarNames |->
                            IF update_config["update_vars"] \/ v \notin s_vars
                            THEN ModelFixed[v] ELSE s_fixed[v]],
              sense |-> m_sense]

\* termination conditions a solver may report for the status of the problem
TerminationConditions(solver, status) ==
    CASE status = "optimal" -> {"optimal"}
      [] status = "infeasible" ->
            IF solver = "ipopt" THEN {"infeasible", "unbounded"}
            ELSE {"infeasible", "infeasibleOrUnbounded"}
      [] status = "unbounded" ->
            IF solver = "ipopt" THEN {"unbounded"}
            ELSE {"unbounded", "infeasibleOrUnbounded"}

\* mutation: Ipopt's bound is -inf whatever the sense
BestBound_ignores_sense(solver, sense, value) ==
    IF solver = "ipopt" THEN <<-1, 0>> ELSE value

\* best_objective_bound: the optimal value for the LP solvers; Ipopt proves
\* no bound and reports -inf (minimize) or +inf (maximize), written n/0
BestBound(solver, sense, value) ==
    IF solver = "ipopt"
    THEN (IF sense = "minimize" THEN <<-1, 0>> ELSE <<1, 0>>)
    ELSE value

Solution(o, cons, vs) ==
    [has |-> TRUE, vars |-> vs, x |-> o.x, y |-> o.y,
     duals |-> [c \in cons |-> o.duals[c]],
     rc |-> [v \in vs |-> o.duals[v]]]

\* variable values of the model after the solver's solution is loaded for vs
Loaded(s, vs) == [v \in VarNames |-> IF v \in vs THEN s[v] ELSE m_value[v]]

\* solve with load_solution = ls: bring the solver up to date, solve, then
\* load the solution or raise if there is none to load
SolveCore(ls, legacy) ==
    /\ built
    /\ \A p \in UsedParams(test) : m_params[p] # None
    /\ LET u == Synced
           obj == [ox |-> ObjExpr(test).ox, oy |-> ObjExpr(test).oy, sense |-> u.sense]
       IN  /\ s_set' = TRUE
           /\ s_vars' = u.vars
           /\ s_cons' = u.cons
           /\ s_params' = u.params
           /\ s_fixed' = u.fixed
           /\ s_sense' = u.sense
           /\ \E o \in SolveLP(SolverRows(test, u.cons, u.params, u.vars, u.fixed), obj) :
              \E tc \in TerminationConditions(name, o.status) :
                 IF o.status = "optimal"
                 THEN /\ sol' = Solution(o, u.cons, u.vars)
                      /\ m_value' = IF ls THEN Loaded(sol', u.vars) ELSE m_value
                      /\ m_dual' = IF ls /\ legacy THEN sol'.duals ELSE m_dual
                      /\ res' = [tc |-> tc,
                                 bfo |-> IF HasObjective(test) THEN o.value ELSE None,
                                 bob |-> IF HasObjective(test)
                                         THEN BestBound(name, u.sense, o.value) ELSE None,
                                 soln |-> IF legacy /\ ~ls THEN sol' ELSE NoSol]
                      /\ outcome' = "ok"
                 ELSE /\ sol' = NoSol
                      /\ UNCHANGED <<m_value, m_dual>>
                      /\ IF ls
                         THEN outcome' = "raised" /\ res' = res
                         ELSE /\ outcome' = "ok"
                              /\ res' = [tc |-> tc, bfo |-> None, bob |-> None, soln |-> NoSol]
    /\ UNCHANGED <<test, name, avail, built, m_vars, m_cons, m_params, m_fixed, m_sense,
                   configvars, ret, kernelvars>>

Call(op, arg) == [op |-> op, arg |-> arg]

NoArg == {}

\* opt.solve(m) on a PersistentSolver
solve ==
    /\ test \in TestSolvers
    /\ SolveCore(load_solution, FALSE)
    /\ last' = Call("solve", NoArg)

\* opt.solve(m, load_solutions=ls) through SolverFactory('appsi_<name>')
legacy_solve(ls) ==
    /\ test \in TestLegacySolverInterface
    /\ SolveCore(ls, TRUE)
    /\ last' = Call("solve", IF ls THEN {"load_solutions"} ELSE NoArg)

\* m.solutions.load_from(res)
load_from ==
    /\ test \in TestLegacySolverInterface
    /\ built
    /\ res.soln.has
    /\ m_value' = Loaded(res.soln, res.soln.vars)
    /\ m_dual' = res.soln.duals
    /\ outcome' = "ok"
    /\ last' = Call("load_from", NoArg)
    /\ UNCHANGED <<test, name, avail, built, m_vars, m_cons, m_params, m_fixed, m_sense,
                   configvars, solvervars, res, ret, kernelvars>>

\* mutation: variables the solver does not hold are skipped silently
load_vars_skips_unknown(arg) ==
    /\ test = "test_add_and_remove_vars"
    /\ built
    /\ LET vs == IF arg = {"None"} THEN s_vars ELSE arg
       IN  IF sol.has
           THEN m_value' = Loaded(sol, vs \cap s_vars) /\ outcome' = "ok"
           ELSE m_value' = m_value /\ outcome' = "raised"
    /\ last' = Call("load_vars", arg)
    /\ UNCHANGED <<test, name, avail, built, m_vars, m_cons, m_params, m_fixed, m_sense,
                   m_dual, configvars, solvervars, res, ret, kernelvars>>

\* opt.load_vars(vars_to_load): arg {"None"} is the default, all variables
load_vars(arg) ==
    /\ test = "test_add_and_remove_vars"
    /\ built
    /\ LET vs == IF arg = {"None"} THEN s_vars ELSE arg
       IN  IF sol.has /\ vs \subseteq s_vars
           THEN m_value' = Loaded(sol, vs) /\ outcome' = "ok"
           ELSE m_value' = m_value /\ outcome' = "raised"
    /\ last' = Call("load_vars", arg)
    /\ UNCHANGED <<test, name, avail, built, m_vars, m_cons, m_params, m_fixed, m_sense,
                   m_dual, configvars, solvervars, res, ret, kernelvars>>

\* mutation: cons_to_load is ignored, every dual is returned
get_duals_ignores_cons_to_load(arg) ==
    /\ test \in TestSolvers
    /\ built
    /\ IF sol.has /\ (arg = {"None"} \/ arg \subseteq DOMAIN sol.duals)
       THEN ret' = sol.duals /\ outcome' = "ok"
       ELSE ret' = ret /\ outcome' = "raised"
    /\ last' = Call("get_duals", arg)
    /\ UNCHANGED <<test, name, avail, built, modelvars, configvars, solvervars, res,
                   kernelvars>>

\* opt.get_duals(cons_to_load): arg {"None"} is the default, all constraints
get_duals(arg) ==
    /\ test \in TestSolvers
    /\ built
    /\ LET cs == IF arg = {"None"} THEN DOMAIN sol.duals ELSE arg
       IN  IF sol.has /\ cs \subseteq DOMAIN sol.duals
           THEN ret' = [c \in cs |-> sol.duals[c]] /\ outcome' = "ok"
           ELSE ret' = ret /\ outcome' = "raised"
    /\ last' = Call("get_duals", arg)
    /\ UNCHANGED <<test, name, avail, built, modelvars, configvars, solvervars, res,
                   kernelvars>>

\* opt.get_reduced_costs()
get_reduced_costs ==
    /\ test \in BoundedVarTests
    /\ built
    /\ IF sol.has
       THEN ret' = sol.rc /\ outcome' = "ok"
       ELSE ret' = ret /\ outcome' = "raised"
    /\ last' = Call("get_reduced_costs", {"None"})
    /\ UNCHANGED <<test, name, avail, built, modelvars, configvars, solvervars, res,
                   kernelvars>>

\* opt.add_variables(vs), opt.remove_variables(vs)
add_variables(vs) ==
    /\ test = "test_add_and_remove_vars"
    /\ s_set
    /\ vs # {} /\ vs \subseteq m_vars \ s_vars
    /\ s_vars' = s_vars \cup vs
    /\ s_fixed' = [v \in VarNames |-> IF v \in vs THEN ModelFixed[v] ELSE s_fixed[v]]
    /\ outcome' = "ok"
    /\ last' = Call("add_variables", vs)
    /\ UNCHANGED <<test, name, avail, built, modelvars, configvars, s_set, s_cons, s_params,
                   s_sense, sol, res, ret, kernelvars>>

ReferencedVars(cs) == UNION { ConVars(test, c) : c \in cs }
                      \cup { v \in VarNames : (v = "x" /\ ObjExpr(test).ox # 0)
                                              \/ (v = "y" /\ ObjExpr(test).oy # 0) }

remove_variables(vs) ==
    /\ test = "test_add_and_remove_vars"
    /\ s_set
    /\ vs # {} /\ vs \subseteq s_vars
    /\ vs \cap ReferencedVars(s_cons) = {}
    /\ s_vars' = s_vars \ vs
    /\ outcome' = "ok"
    /\ last' = Call("remove_variables", vs)
    /\ UNCHANGED <<test, name, avail, built, modelvars, configvars, s_set, s_cons, s_params,
                   s_fixed, s_sense, sol, res, ret, kernelvars>>

\* opt.add_constraints(cs), opt.remove_constraints(cs)
add_constraints(cs) ==
    /\ test = "test_add_and_remove_vars"
    /\ s_set
    /\ cs # {} /\ cs \subseteq m_cons \ s_cons
    /\ ReferencedVars(cs) \subseteq s_vars
    /\ s_cons' = s_cons \cup cs
    /\ outcome' = "ok"
    /\ last' = Call("add_constraints", cs)
    /\ UNCHANGED <<test, name, avail, built, modelvars, configvars, s_set, s_vars, s_params,
                   s_fixed, s_sense, sol, res, ret, kernelvars>>

remove_constraints(cs) ==
    /\ test = "test_add_and_remove_vars"
    /\ s_set
    /\ cs # {} /\ cs \subseteq s_cons
    /\ s_cons' = s_cons \ cs
    /\ outcome' = "ok"
    /\ last' = Call("remove_constraints", cs)
    /\ UNCHANGED <<test, name, avail, built, modelvars, configvars, s_set, s_vars, s_params,
                   s_fixed, s_sense, sol, res, ret, kernelvars>>

\* ------------------------------------------------------------------------
\* The tests' own steps
\* ------------------------------------------------------------------------

\* if not opt.available(): raise unittest.SkipTest; the legacy tests call
\* opt.available(exception_flag=False), which answers False and does not raise
available ==
    /\ test \in Tests
    /\ avail = "unchecked"
    /\ avail' \in {"yes", "skipped"}
    /\ outcome' = "ok"
    /\ last' = Call("available", IF test \in TestLegacySolverInterface
                                 THEN {"exception_flag=False"} ELSE NoArg)
    /\ UNCHANGED <<test, name, built, modelvars, configvars, solvervars, res, ret,
                   kernelvars>>

\* mutation: the test builds its model without asking opt.available()
build_model_unchecked ==
    /\ test \in Tests
    /\ ~built
    /\ built' = TRUE
    /\ m_vars' = InitVars(test)
    /\ m_cons' = InitCons(test)
    /\ m_params' = InitParams(test)
    /\ m_fixed' = [v \in VarNames |-> test = "test_fixed_vars" /\ v = "x"]
    /\ m_value' = [v \in VarNames |->
                      IF test = "test_fixed_vars" /\ v = "x" THEN RatInt(0) ELSE None]
    /\ last' = Call("build_model", NoArg)
    /\ UNCHANGED <<test, name, avail, m_sense, m_dual, configvars, solvervars, res, outcome,
                   ret, kernelvars>>

\* m = pe.ConcreteModel() and the components declared before the first solve
build_model ==
    /\ avail = "yes"
    /\ ~built
    /\ built' = TRUE
    /\ m_vars' = InitVars(test)
    /\ m_cons' = InitCons(test)
    /\ m_params' = InitParams(test)
    /\ m_fixed' = [v \in VarNames |-> test = "test_fixed_vars" /\ v = "x"]
    /\ m_value' = [v \in VarNames |->
                      IF test = "test_fixed_vars" /\ v = "x" THEN RatInt(0) ELSE None]
    /\ last' = Call("build_model", NoArg)
    /\ UNCHANGED <<test, name, avail, m_sense, m_dual, configvars, solvervars, res, outcome,
                   ret, kernelvars>>

\* m.a1.value = a1; m.a2.value = a2; m.b1.value = b1; m.b2.value = b2
set_params(t) ==
    /\ test \in ParamLoopTests
    /\ built
    /\ m_params' = [m_params EXCEPT !["a1"] = Some(t[1]), !["a2"] = Some(t[2]),
                                    !["b1"] = Some(t[3]), !["b2"] = Some(t[4])]
    /\ last' = Call("set_params", NoArg)
    /\ UNCHANGED <<test, name, avail, built, m_vars, m_cons, m_fixed, m_value, m_sense, m_dual,
                   configvars, solvervars, res, outcome, ret, kernelvars>>

\* the loop head of test_mutable_param_with_range: six parameters and the sense
set_range_params(t) ==
    /\ test = "test_mutable_param_with_range"
    /\ built
    /\ m_params' = [a1 |-> Some(t[1]), a2 |-> Some(t[2]), b1 |-> Some(t[3]),
                    b2 |-> Some(t[4]), c1 |-> Some(t[5]), c2 |-> Some(t[6])]
    /\ m_sense' = t[7]
    /\ last' = Call("set_range_params", NoArg)
    /\ UNCHANGED <<test, name, avail, built, m_vars, m_cons, m_fixed, m_value, m_dual,
                   configvars, solvervars, res, outcome, ret, kernelvars>>

\* m.c3 = pe.Constraint(expr=m.y >= a3 * m.x + b3)
add_c3 ==
    /\ test = "test_add_remove_cons"
    /\ built
    /\ "c3" \notin m_cons
    /\ m_cons' = m_cons \cup {"c3"}
    /\ last' = Call("add_c3", {"c3"})
    /\ UNCHANGED <<test, name, avail, built, m_vars, m_params, m_fixed, m_value, m_sense,
                   m_dual, configvars, solvervars, res, outcome, ret, kernelvars>>

\* del m.c3
del_c3 ==
    /\ test = "test_add_remove_cons"
    /\ built
    /\ "c3" \in m_cons
    /\ m_cons' = m_cons \ {"c3"}
    /\ last' = Call("del_c3", {"c3"})
    /\ UNCHANGED <<test, name, avail, built, m_vars, m_params, m_fixed, m_value, m_sense,
                   m_dual, configvars, solvervars, res, outcome, ret, kernelvars>>

\* values the tests fix x at or assign to it
FixValues == {0, 2}

\* mutation: m.x.fix() with no value, which fixes x at its current value
fix_at_current_value ==
    /\ test = "test_fixed_vars"
    /\ built
    /\ m_value["x"] # None
    /\ m_fixed' = [m_fixed EXCEPT !["x"] = TRUE]
    /\ last' = Call("fix", {"x"})
    /\ UNCHANGED <<test, name, avail, built, m_vars, m_cons, m_params, m_value, m_sense,
                   m_dual, configvars, solvervars, res, outcome, ret, kernelvars>>

\* m.x.fix(0)
fix ==
    /\ test = "test_fixed_vars"
    /\ built
    /\ m_fixed' = [m_fixed EXCEPT !["x"] = TRUE]
    /\ m_value' = [m_value EXCEPT !["x"] = RatInt(0)]
    /\ last' = Call("fix", {"x"})
    /\ UNCHANGED <<test, name, avail, built, m_vars, m_cons, m_params, m_sense, m_dual,
                   configvars, solvervars, res, outcome, ret, kernelvars>>

\* m.x.unfix()
unfix ==
    /\ test = "test_fixed_vars"
    /\ built
    /\ m_fixed["x"]
    /\ m_fixed' = [m_fixed EXCEPT !["x"] = FALSE]
    /\ last' = Call("unfix", {"x"})
    /\ UNCHANGED <<test, name, avail, built, m_vars, m_cons, m_params, m_value, m_sense,
                   m_dual, configvars, solvervars, res, outcome, ret, kernelvars>>

\* m.x.value = v
set_value(v) ==
    /\ test = "test_fixed_vars"
    /\ built
    /\ m_value' = [m_value EXCEPT !["x"] = RatInt(v)]
    /\ last' = Call("set_value", {"x"})
    /\ UNCHANGED <<test, name, avail, built, m_vars, m_cons, m_params, m_fixed, m_sense,
                   m_dual, configvars, solvervars, res, outcome, ret, kernelvars>>

\* m.x = pe.Var() of test_add_and_remove_vars
declare_x ==
    /\ test = "test_add_and_remove_vars"
    /\ built
    /\ "x" \notin m_vars
    /\ m_vars' = m_vars \cup {"x"}
    /\ last' = Call("declare_x", {"x"})
    /\ UNCHANGED <<test, name, avail, built, m_cons, m_params, m_fixed, m_value, m_sense,
                   m_dual, configvars, solvervars, res, outcome, ret, kernelvars>>

\* m.c1 = pe.Constraint(...), m.c2 = pe.Constraint(...) of test_add_and_remove_vars
declare_con(c) ==
    /\ test = "test_add_and_remove_vars"
    /\ built
    /\ c \notin m_cons
    /\ ConVars(test, c) \subseteq m_vars
    /\ m_cons' = m_cons \cup {c}
    /\ last' = Call("declare_con", {c})
    /\ UNCHANGED <<test, name, avail, built, m_vars, m_params, m_fixed, m_value, m_sense,
                   m_dual, configvars, solvervars, res, outcome, ret, kernelvars>>

\* m.x.value = None
reset_value ==
    /\ test = "test_add_and_remove_vars"
    /\ built
    /\ "x" \in m_vars
    /\ m_value["x"] # None
    /\ m_value' = [m_value EXCEPT !["x"] = None]
    /\ last' = Call("reset_value", {"x"})
    /\ UNCHANGED <<test, name, avail, built, m_vars, m_cons, m_params, m_fixed, m_sense,
                   m_dual, configvars, solvervars, res, outcome, ret, kernelvars>>

\* m.obj.sense = pe.maximize
set_sense ==
    /\ test \in {"test_reduced_costs2", "test_range_constraint"}
    /\ built
    /\ m_sense = "minimize"
    /\ m_sense' = "maximize"
    /\ last' = Call("set_sense", NoArg)
    /\ UNCHANGED <<test, name, avail, built, m_vars, m_cons, m_params, m_fixed, m_value,
                   m_dual, configvars, solvervars, res, outcome, ret, kernelvars>>

\* opt.config.load_solution = False
set_load_solution ==
    /\ test \in {"test_results_infeasible", "test_add_and_remove_vars"}
    /\ avail = "yes"
    /\ load_solution
    /\ load_solution' = FALSE
    /\ last' = Call("set_load_solution", NoArg)
    /\ UNCHANGED <<test, name, avail, built, modelvars, update_config, solvervars, res,
                   outcome, ret, kernelvars>>

\* opt.update_config.<flag> = False for all seven flags
disable_updates ==
    /\ test = "test_add_and_remove_vars"
    /\ avail = "yes"
    /\ update_config = DefaultUpdateConfig
    /\ update_config' = [f \in UpdateFlags |-> FALSE]
    /\ last' = Call("disable_updates", NoArg)
    /\ UNCHANGED <<test, name, avail, built, modelvars, load_solution, solvervars, res,
                   outcome, ret, kernelvars>>

\* ------------------------------------------------------------------------
\* pyomo/kernel/__init__.py: the statements after the star import, in order
\* ------------------------------------------------------------------------
Import(cls) == [op |-> "import", cls |-> cls, target |-> ""]

Assign(target, cls) == [op |-> "assign", cls |-> cls, target |-> target]

Del(cls) == [op |-> "del", cls |-> cls, target |-> ""]

Assigns(targets, cls) == [i \in 1..Len(targets) |-> Assign(targets[i], cls)]

\* one "set up the ... ctype" block: import the class, assign it, delete it
Family(cls, targets) == <<Import(cls)>> \o Assigns(targets, cls) \o <<Del(cls)>>

BlockStmts ==
    Family("Block", <<"block", "block_tuple", "block_list", "block_dict", "tiny_block">>)

\* mutation: the assignment to variable_dict is missing
VarStmts_without_dict ==
    Family("Var", <<"variable", "variable_tuple", "variable_list">>)

VarStmts ==
    Family("Var", <<"variable", "variable_tuple", "variable_list", "variable_dict">>)

ConstraintStmts ==
    <<Import("Constraint"), Import("_MatrixConstraintData")>>
    \o Assigns(<<"constraint", "linear_constraint", "constraint_tuple", "constraint_list",
                 "constraint_dict", "_MatrixConstraintData", "matrix_constraint">>,
               "Constraint")
    \o <<Del("_MatrixConstraintData"), Del("Constraint")>>

\* mutation: "del Param" is missing
ParamStmts_without_del ==
    <<Import("Param")>>
    \o Assigns(<<"parameter", "parameter_tuple", "parameter_list", "parameter_dict">>, "Param")

ParamStmts ==
    Family("Param", <<"parameter", "parameter_tuple", "parameter_list", "parameter_dict">>)

ExpressionStmts ==
    Family("Expression", <<"expression", "data_expression", "expression_tuple",
                           "expression_list", "expression_dict">>)

ObjectiveStmts ==
    Family("Objective", <<"objective", "objective_tuple", "objective_list",
                          "objective_dict">>)

SOSConstraintStmts ==
    Family("SOSConstraint", <<"sos", "sos_tuple", "sos_list", "sos_dict">>)

SuffixStmts == Family("Suffix", <<"suffix">>)

KernelStmts ==
    BlockStmts \o VarStmts \o ConstraintStmts \o ParamStmts \o ExpressionStmts
    \o ObjectiveStmts \o SOSConstraintStmts \o SuffixStmts

\* names bound by "from pyomo.core.kernel import *"
StarImported ==
    {"block", "block_tuple", "block_list", "block_dict", "tiny_block",
     "variable", "variable_tuple", "variable_list", "variable_dict",
     "constraint", "linear_constraint", "constraint_tuple", "constraint_list",
     "constraint_dict", "matrix_constraint",
     "parameter", "parameter_tuple", "parameter_list", "parameter_dict",
     "expression", "data_expression", "expression_tuple", "expression_list",
     "expression_dict",
     "objective", "objective_tuple", "objective_list", "objective_dict",
     "sos", "sos_tuple", "sos_list", "sos_dict", "suffix"}

Bound(n) == n \in StarImported \/ n \in namespace

\* from ... import cls
kernel_import ==
    /\ test = KernelImport
    /\ kpc \in 1..Len(KernelStmts)
    /\ KernelStmts[kpc].op = "import"
    /\ namespace' = namespace \cup {KernelStmts[kpc].cls}
    /\ kpc' = kpc + 1
    /\ UNCHANGED <<test, name, avail, built, modelvars, configvars, solvervars, res, outcome,
                   last, ret, ctype>>

\* target._ctype = cls; a name that is not bound raises NameError (kpc = 0)
kernel_assign ==
    /\ test = KernelImport
    /\ kpc \in 1..Len(KernelStmts)
    /\ KernelStmts[kpc].op = "assign"
    /\ IF Bound(KernelStmts[kpc].target) /\ Bound(KernelStmts[kpc].cls)
       THEN /\ ctype' = [ctype EXCEPT ![KernelStmts[kpc].target] = KernelStmts[kpc].cls]
            /\ kpc' = kpc + 1
       ELSE /\ ctype' = ctype
            /\ kpc' = 0
    /\ UNCHANGED <<test, name, avail, built, modelvars, configvars, solvervars, res, outcome,
                   last, ret, namespace>>

\* del cls
kernel_del ==
    /\ test = KernelImport
    /\ kpc \in 1..Len(KernelStmts)
    /\ KernelStmts[kpc].op = "del"
    /\ IF Bound(KernelStmts[kpc].cls)
       THEN /\ namespace' = namespace \ {KernelStmts[kpc].cls}
            /\ kpc' = kpc + 1
       ELSE /\ namespace' = namespace
            /\ kpc' = 0
    /\ UNCHANGED <<test, name, avail, built, modelvars, configvars, solvervars, res, outcome,
                   last, ret, ctype>>

\* ------------------------------------------------------------------------
\* Specification
\* ------------------------------------------------------------------------
Init ==
    /\ test \in Tests \cup {KernelImport}
    /\ name \in (IF test = KernelImport THEN {"none"} ELSE all_solvers)
    /\ avail = "unchecked"
    /\ built = FALSE
    /\ m_vars = {}
    /\ m_cons = {}
    /\ m_params = NoParams
    /\ m_fixed = [v \in VarNames |-> FALSE]
    /\ m_value = [v \in VarNames |-> None]
    /\ m_sense = "minimize"
    /\ m_dual = EmptyMap
    /\ load_solution = TRUE
    /\ update_config = DefaultUpdateConfig
    /\ s_set = FALSE
    /\ s_vars = {}
    /\ s_cons = {}
    /\ s_params = NoParams
    /\ s_fixed = [v \in VarNames |-> None]
    /\ s_sense = "minimize"
    /\ sol = NoSol
    /\ res = NoRes
    /\ outcome = "ok"
    /\ last = Call("none", NoArg)
    /\ ret = EmptyMap
    /\ kpc = 1
    /\ namespace = {}
    /\ ctype = [t \in StarImported \cup {"_MatrixConstraintData"} |-> "unset"]

Next ==
    \/ available
    \/ build_model
    \/ \E t \in params_to_test : set_params(t)
    \/ \E t \in range_params_to_test : set_range_params(t)
    \/ add_c3
    \/ del_c3
    \/ fix
    \/ unfix
    \/ \E v \in FixValues : set_value(v)
    \/ declare_x
    \/ \E c \in {"c1", "c2"} : declare_con(c)
    \/ reset_value
    \/ set_sense
    \/ set_load_solution
    \/ disable_updates
    \/ solve
    \/ \E ls \in BOOLEAN : legacy_solve(ls)
    \/ load_from
    \/ \E arg \in {{"None"}, {"x"}} : load_vars(arg)
    \/ \E arg \in {{"None"}} \cup (SUBSET AllCons(test) \ {{}}) : get_duals(arg)
    \/ get_reduced_costs
    \/ add_variables({"x"})
    \/ remove_variables({"x"})
    \/ add_constraints({"c1", "c2"})
    \/ remove_constraints({"c1", "c2"})
    \/ kernel_import
    \/ kernel_assign
    \/ kernel_del

Spec == Init /\ [][Next]_vars

\* ------------------------------------------------------------------------
\* Properties
\* ------------------------------------------------------------------------
Values(x, y) == [v \in VarNames |-> IF v = "x" THEN x ELSE y]

Unset == [v \in VarNames |-> None]

\* C1: for the infeasible model of test_results_infeasible, a solve with
\* load_solution=True raises and leaves the variable values None; a solve with
\* load_solution=False returns, its termination condition is not optimal but
\* one of those accepted for the solver, the values are still None and
\* best_feasible_objective is None.
C1_InfeasibleRaisesOrReports ==
    (test = "test_results_infeasible" /\ last.op = "solve") =>
        /\ m_value = Unset
        /\ IF load_solution
           THEN outcome = "raised"
           ELSE /\ outcome = "ok"
                /\ res.tc # "optimal"
                /\ res.tc \in (IF name = "ipopt" THEN {"infeasible", "unbounded"}
                               ELSE {"infeasible", "infeasibleOrUnbounded"})
                /\ res.bfo = None

C1_Witness ==
    /\ test = "test_results_infeasible"
    /\ last.op = "solve"
    /\ ~load_solution
    /\ outcome = "ok"
    /\ res.tc = "infeasible"
    /\ m_value = Unset

\* C2: load_vars([v]) raises when v is not a variable of the solver, also
\* after a successful solve; load_vars() with no argument succeeds whenever
\* the solver holds a solution.
C2_LoadVarsUnknownRaises ==
    (test = "test_add_and_remove_vars" /\ last.op = "load_vars") =>
        /\ (last.arg # {"None"} /\ ~(last.arg \subseteq s_vars)) => outcome = "raised"
        /\ (last.arg = {"None"} /\ sol.has) => outcome = "ok"

C2_Witness ==
    /\ test = "test_add_and_remove_vars"
    /\ last = Call("load_vars", {"x"})
    /\ outcome = "raised"
    /\ "x" \in m_vars
    /\ m_value["x"] # None
    /\ sol.has
    /\ sol.vars = {"y"}
    /\ res.tc = "optimal"

\* C3: in test_add_remove_cons every solve is optimal; with c3 on the model
\* the optimum is the intersection of c1 and c3 (x = -1, y = 2), the dual of
\* c2 is 0 and the dual of c3 is not; without c3 (before it is added and after
\* it is deleted) the solve returns x = -1/2, y = 3/2, objective 3/2 and
\* duals -1/2 for c1 and c2.
C3_AddRemoveConsRoundTrip ==
    (test = "test_add_remove_cons" /\ last.op = "solve") =>
        /\ outcome = "ok"
        /\ res.tc = "optimal"
        /\ IF "c3" \in m_cons
           THEN /\ m_value = Values(Rat(-1, 1), Rat(2, 1))
                /\ res.bfo = Rat(2, 1)
                /\ DOMAIN sol.duals = {"c1", "c2", "c3"}
                /\ sol.duals["c1"] = Rat(-1, 2)
                /\ sol.duals["c2"] = Rat(0, 1)
                /\ sol.duals["c3"] # Rat(0, 1)
           ELSE /\ m_value = Values(Rat(-1, 2), Rat(3, 2))
                /\ res.bfo = Rat(3, 2)
                /\ DOMAIN sol.duals = {"c1", "c2"}
                /\ sol.duals["c1"] = Rat(-1, 2)
                /\ sol.duals["c2"] = Rat(-1, 2)

C3_Witness ==
    /\ test = "test_add_remove_cons"
    /\ last.op = "solve"
    /\ "c3" \notin m_cons
    /\ "c3" \in DOMAIN ret
    /\ m_value = Values(Rat(-1, 2), Rat(3, 2))

\* C4: in the tests that assign (a1, a2, b1, b2) before each solve, every
\* solve is optimal for the values the parameters have at that solve:
\* x = (b2-b1)/(a1-a2), y = a1*(b2-b1)/(a1-a2)+b1, dual of c1 = 1 + a1/(a2-a1),
\* dual of c2 = a1/(a2-a1) (its negative in test_equality); through the
\* legacy interface the same values reach the model and m.dual.
C4_SolveUsesCurrentParams ==
    (test \in ParamTests /\ last.op = "solve") =>
        LET a1 == m_params["a1"][1]
            a2 == m_params["a2"][1]
            b1 == m_params["b1"][1]
            b2 == m_params["b2"][1]
            x == Rat(b2 - b1, a1 - a2)
            y == Rat(a1 * (b2 - b1) + b1 * (a1 - a2), a1 - a2)
            d1 == Rat(a2, a2 - a1)
            d2 == IF test = "test_equality" THEN Rat(-a1, a2 - a1) ELSE Rat(a1, a2 - a1)
        IN  /\ outcome = "ok"
            /\ res.tc = "optimal"
            /\ sol.x = x /\ sol.y = y
            /\ sol.duals["c1"] = d1 /\ sol.duals["c2"] = d2
            /\ (test \in TestSolvers \/ last.arg = {"load_solutions"}) =>
                   m_value = Values(x, y)
            /\ (test = "test_param_updates" /\ last.arg = {"load_solutions"}) =>
                   m_dual["c1"] = d1 /\ m_dual["c2"] = d2

C4_Witness ==
    /\ test = "test_param_changes"
    /\ last.op = "solve"
    /\ res.tc = "optimal"
    /\ m_params["a2"] = Some(-2)
    /\ m_value = Values(Rat(-1, 3), Rat(5, 3))
    /\ "c1" \in DOMAIN ret
    /\ ret["c1"] # sol.duals["c1"]

\* C5: in test_add_and_remove_vars with every update_config flag False and
\* load_solution False, the variables and constraints the solver holds change
\* only through add_variables, remove_variables, add_constraints and
\* remove_constraints, and a solve loads nothing; load_vars() right after a
\* solve yields x = -1/2, y = 3/2 when the solver holds x, c1, c2 and y = -1
\* when it holds no constraint.
ExplicitCalls == {"add_variables", "remove_variables", "add_constraints",
                  "remove_constraints"}

C5_ExplicitUpdatesOnly ==
    [][(/\ test = "test_add_and_remove_vars"
        /\ s_set
        /\ update_config = [f \in UpdateFlags |-> FALSE]
        /\ ~load_solution) =>
          /\ last'.op \notin ExplicitCalls => (s_vars' = s_vars /\ s_cons' = s_cons)
          /\ last'.op = "solve" =>
                (m_value' = m_value /\ outcome' = "ok" /\ res'.tc = "optimal")
          /\ (last.op = "solve" /\ last' = Call("load_vars", {"None"})) =>
                /\ outcome' = "ok"
                /\ s_cons = {"c1", "c2"} => m_value' = Values(Rat(-1, 2), Rat(3, 2))
                /\ s_cons = {} => m_value'["y"] = Rat(-1, 1)
      ]_vars

C5_Witness ==
    /\ test = "test_add_and_remove_vars"
    /\ update_config = [f \in UpdateFlags |-> FALSE]
    /\ ~load_solution
    /\ last = Call("load_vars", {"None"})
    /\ outcome = "ok"
    /\ m_cons = {"c1", "c2"}
    /\ s_cons = {}
    /\ s_vars = {"y"}
    /\ m_value["x"] = Rat(-1, 2)
    /\ m_value["y"] = Rat(-1, 1)

\* C6: in test_fixed_vars every solve succeeds; when x is fixed the solve
\* leaves its value unchanged and gives y = 2 for x = 0 and y = 3 for x = 2;
\* when x is not fixed the solve gives the free optimum x = 1/2, y = 3/2.
C6_FixedVarsFollowed ==
    [][(test = "test_fixed_vars" /\ last'.op = "solve") =>
          /\ outcome' = "ok"
          /\ res'.tc = "optimal"
          /\ IF m_fixed["x"]
             THEN /\ m_value'["x"] = m_value["x"]
                  /\ m_value["x"] = Rat(0, 1) => m_value'["y"] = Rat(2, 1)
                  /\ m_value["x"] = Rat(2, 1) => m_value'["y"] = Rat(3, 1)
                  /\ m_value["x"] \in {Rat(0, 1), Rat(2, 1)}
             ELSE m_value' = Values(Rat(1, 2), Rat(3, 2))
      ]_vars

C6_Witness ==
    /\ test = "test_fixed_vars"
    /\ last.op = "solve"
    /\ m_fixed["x"]
    /\ m_value = Values(Rat(2, 1), Rat(3, 1))
    /\ s_fixed["x"] = Rat(2, 1)

\* C7: when the import of pyomo.kernel has finished, every kernel type has
\* the component category of its family as _ctype, and no type whose _ctype
\* was set is ever assigned a different one.
CategoryOf(t) ==
    CASE t \in {"block", "block_tuple", "block_list", "block_dict", "tiny_block"} -> "Block"
      [] t \in {"variable", "variable_tuple", "variable_list", "variable_dict"} -> "Var"
      [] t \in {"constraint", "linear_constraint", "constraint_tuple", "constraint_list",
                "constraint_dict", "_MatrixConstraintData", "matrix_constraint"}
           -> "Constraint"
      [] t \in {"parameter", "parameter_tuple", "parameter_list", "parameter_dict"} -> "Param"
      [] t \in {"expression", "data_expression", "expression_tuple", "expression_list",
                "expression_dict"} -> "Expression"
      [] t \in {"objective", "objective_tuple", "objective_list", "objective_dict"}
           -> "Objective"
      [] t \in {"sos", "sos_tuple", "sos_list", "sos_dict"} -> "SOSConstraint"
      [] t = "suffix" -> "Suffix"

C7_CtypeOfFamily ==
    [][/\ kpc' = Len(KernelStmts) + 1 => \A t \in DOMAIN ctype' : ctype'[t] = CategoryOf(t)
       /\ kpc' # 0
       /\ \A t \in DOMAIN ctype : ctype[t] # "unset" => ctype'[t] = ctype[t]
      ]_vars

C7_Witness ==
    /\ test = KernelImport
    /\ kpc = Len(KernelStmts) + 1
    /\ ctype["suffix"] = "Suffix"
    /\ ctype["_MatrixConstraintData"] = "Constraint"

\* C8: through the legacy interface, solve(m, load_solutions=False) on the
\* optimal model of test_load_solutions returns an optimal result and changes
\* neither the variable values nor m.dual; these change only in a solve that
\* loads or in m.solutions.load_from(res), and load_from writes x = -1 and the
\* dual 1 of c.
C8_LegacyNoLoadLeavesModel ==
    [][test = "test_load_solutions" =>
          /\ last' = Call("solve", NoArg) =>
                /\ outcome' = "ok" /\ res'.tc = "optimal"
                /\ m_value' = m_value /\ m_dual' = m_dual
          /\ (m_value' # m_value \/ m_dual' # m_dual) =>
                last' \in {Call("solve", {"load_solutions"}), Call("load_from", NoArg)}
          /\ last'.op = "load_from" =>
                /\ m_value'["x"] = Rat(-1, 1)
                /\ DOMAIN m_dual' = {"c"} /\ m_dual'["c"] = Rat(1, 1)
      ]_vars

C8_Witness ==
    /\ test = "test_load_solutions"
    /\ last = Call("solve", NoArg)
    /\ res.tc = "optimal"
    /\ m_value["x"] = None
    /\ DOMAIN m_dual = {}
    /\ res.soln.has
    /\ res.soln.x = Rat(-1, 1)

\* C9: get_duals(cons_to_load=S) returns a mapping whose keys are exactly S,
\* each with the dual the solver holds for it (what get_duals() returns); in
\* test_duals, get_duals([c1]) is {c1: 1/2} and has no key c2.
C9_GetDualsSubset ==
    (test \in TestSolvers /\ last.op = "get_duals" /\ outcome = "ok") =>
        /\ last.arg # {"None"} =>
              /\ DOMAIN ret = last.arg
              /\ \A c \in last.arg : ret[c] = sol.duals[c]
        /\ last.arg = {"None"} => ret = sol.duals
        /\ (test = "test_duals" /\ last.arg = {"c1"}) =>
              (ret["c1"] = Rat(1, 2) /\ "c2" \notin DOMAIN ret)

C9_Witness ==
    /\ test = "test_duals"
    /\ last = Call("get_duals", {"c1"})
    /\ outcome = "ok"
    /\ ret["c1"] = Rat(1, 2)
    /\ sol.duals["c2"] = Rat(1, 2)

\* C10: after every solve that terminates optimal and loads its solution,
\* best_feasible_objective is the objective at the values of the model, and
\* best_objective_bound is <= it when the sense is minimize and >= it when
\* the sense is maximize.
ObjAtModel ==
    LET val(v) == IF m_value[v] = None THEN RatInt(0) ELSE m_value[v]
    IN  ObjValue(ObjExpr(test), [x |-> val("x"), y |-> val("y")])

ObjCoefficient(t, v) ==
    IF t = "test_reduced_costs" THEN (IF v = "x" THEN 3 ELSE 4) ELSE 1

AtBound(t, v, sense) == IF sense = "minimize" THEN VarLb(t, v) ELSE VarUb(t, v)

C11_ReducedCostIsCoefficient ==
    /\ (test \in BoundedVarTests /\ last.op = "solve") =>
          /\ outcome = "ok"
          /\ res.tc = "optimal"
          /\ \A v \in m_vars :
                /\ m_value[v] = RatInt(AtBound(test, v, m_sense)[1])
                /\ sol.rc[v] = RatInt(ObjCoefficient(test, v))
    /\ (test \in BoundedVarTests /\ last.op = "get_reduced_costs" /\ outcome = "ok") =>
          /\ DOMAIN ret = m_vars
          /\ \A v \in m_vars :
                /\ ret[v] = RatInt(ObjCoefficient(test, v))
                /\ m_value[v] = RatInt(AtBound(test, v, s_sense)[1])

C11_Witness ==
    /\ test = "test_reduced_costs2"
    /\ last.op = "get_reduced_costs"
    /\ s_sense = "maximize"
    /\ m_value["x"] = RatInt(1)
    /\ ret["x"] = RatInt(1)

\* C12: in test_range_constraint (-1 <= x <= 1, objective x) every solve is
\* optimal and follows the sense the objective has at that moment: it loads
\* x = -1 while the sense is minimize and x = 1 once the sense has been set
\* to maximize, also when the solver solved the model with the other sense
\* before; the dual of the range constraint is 1 in both cases, and that is
\* what get_duals() returns.
C12_SenseChangeFollowed ==
    [][ /\ (test = "test_range_constraint" /\ last'.op = "solve") =>
              /\ outcome' = "ok"
              /\ res'.tc = "optimal"
              /\ m_sense = "minimize" => m_value'["x"] = RatInt(-1)
              /\ m_sense = "maximize" => m_value'["x"] = RatInt(1)
              /\ s_sense' = m_sense
              /\ sol'.duals = [c \in {"c"} |-> RatInt(1)]
        /\ (test = "test_range_constraint" /\ last'.op = "get_duals" /\ outcome' = "ok") =>
              ret'["c"] = RatInt(1)
      ]_vars

C12_Witness ==
    /\ test = "test_range_constraint"
    /\ last.op = "solve"
    /\ m_sense = "maximize"
    /\ res.tc = "optimal"
    /\ m_value["x"] = RatInt(1)
    /\ sol.duals["c"] = RatInt(1)
    /\ "c" \in DOMAIN ret

\* C13: in test_no_objective, whose model has the two equality constraints
\* and no objective, every solve is optimal for the values the parameters have
\* at that solve: x = (b2-b1)/(a1-a2), y = a1*(b2-b1)/(a1-a2)+b1 are loaded,
\* best_feasible_objective and best_objective_bound are None, the duals of
\* c1 and c2 are 0, and that is what get_duals() returns.
C13_NoObjective ==
    /\ (test = "test_no_objective" /\ last.op = "solve") =>
          LET a1 == m_params["a1"][1]
              a2 == m_params["a2"][1]
              b1 == m_params["b1"][1]
              b2 == m_params["b2"][1]
          IN  /\ outcome = "ok"
              /\ res.tc = "optimal"
              /\ m_value = Values(Rat(b2 - b1, a1 - a2),
                                  Rat(a1 * (b2 - b1) + b1 * (a1 - a2), a1 - a2))
              /\ res.bfo = None
              /\ res.bob = None
              /\ sol.duals = [c \in {"c1", "c2"} |-> RatInt(0)]
    /\ (test = "test_no_objective" /\ last.op = "get_duals" /\ outcome = "ok") =>
          \A c \in DOMAIN ret : ret[c] = RatInt(0)

C13_Witness ==
    /\ test = "test_no_objective"
    /\ last.op = "solve"
    /\ res.tc = "optimal"
    /\ m_params["a2"] = Some(-2)
    /\ m_value = Values(Rat(-1, 3), Rat(5, 3))
    /\ res.bfo = None
    /\ res.bob = None
    /\ DOMAIN ret = {"c1", "c2"}

\* C14: with automatic change detection on (the default update_config), the
\* result of every solve of a persistent solver is one a freshly created
\* solver could return for the model as it is at that solve, whatever was
\* changed and solved before: the same termination condition, primal values
\* and duals, or an exception in the same cases; and the solver is left
\* holding exactly the variables, constraints, parameter values, fixed values
\* and sense of the model.
FreshSolve ==
    SolveLP(SolverRows(test, m_cons, m_params, m_vars, ModelFixed),
            [ox |-> ObjExpr(test).ox, oy |-> ObjExpr(test).oy, sense |-> m_sense])

CategoryClasses == {"Block", "Var", "Constraint", "Param", "Expression", "Objective",
                    "SOSConstraint", "Suffix"}

C16_NoClassLeftBound ==
    [][ test = KernelImport =>
          /\ namespace' \subseteq CategoryClasses \cup {"_MatrixConstraintData"}
          /\ Cardinality(namespace' \cap CategoryClasses) <= 1
          /\ "_MatrixConstraintData" \in namespace' => "Constraint" \in namespace'
          /\ \A t \in DOMAIN ctype : ctype'[t] # ctype[t] => ctype'[t] \in namespace
          /\ \A c \in CategoryClasses : (c \in namespace' /\ c \notin namespace) => namespace = {}
          /\ kpc' = Len(KernelStmts) + 1 => namespace' = {}
      ]_vars

C16_Witness ==
    /\ test = KernelImport
    /\ kpc = Len(KernelStmts) + 1
    /\ namespace = {}
    /\ \A c \in CategoryClasses : \E t \in DOMAIN ctype : ctype[t] = c

====
